---- MODULE Spec2Model ----
(***************************************************************************)
(* A model of lalitha.py: the scan of the schedule grid, the resolution of *)
(* each matched cell's date, the assembly of the event descriptors, the    *)
(* recurring schedules and the batch that main() hands to the calendar.    *)
(*                                                                         *)
(* Text is modelled as a sequence of one-character strings, so that        *)
(* parsing, formatting, slicing and upper-casing are computed and not      *)
(* assumed.  An empty spreadsheet cell is the value NaN.  Text that the   *)
(* program only passes on (titles, locations, the time zone) is a string.  *)
(***************************************************************************)
EXTENDS Integers, Sequences, FiniteSets, TLC

\* ------------------------------------------------------------------ text

Digits == <<"0","1","2","3","4","5","6","7","8","9">>

LowerCase == <<"a","b","c","d","e","f","g","h","i","j","k","l","m",
               "n","o","p","q","r","s","t","u","v","w","x","y","z">>

UpperCase == <<"A","B","C","D","E","F","G","H","I","J","K","L","M",
               "N","O","P","Q","R","S","T","U","V","W","X","Y","Z">>

\* The value pandas gives an empty cell; no text equals it.
NaN == <<"NaN">>

isna(cell) == cell = NaN

IsDigit(ch) == \E i \in 1..10 : Digits[i] = ch

DigitVal(ch) == (CHOOSE i \in 1..10 : Digits[i] = ch) - 1

AllDigits(s) == \A i \in 1..Len(s) : IsDigit(s[i])

RECURSIVE NumVal(_)
NumVal(s) ==
    IF s = <<>> THEN 0
    ELSE 10 * NumVal(SubSeq(s, 1, Len(s) - 1)) + DigitVal(s[Len(s)])

\* str.upper() on one character
UpperChar(ch) ==
    IF \E i \in 1..26 : LowerCase[i] = ch
    THEN UpperCase[CHOOSE i \in 1..26 : LowerCase[i] = ch]
    ELSE ch

upper(s) == [i \in 1..Len(s) |-> UpperChar(s[i])]

\* x[:n]
Prefix(s, n) == SubSeq(s, 1, IF Len(s) < n THEN Len(s) ELSE n)

\* The position of the first ch in s, or 0
RECURSIVE IndexOf(_, _, _)
IndexOf(s, ch, i) ==
    IF i > Len(s) THEN 0
    ELSE IF s[i] = ch THEN i
    ELSE IndexOf(s, ch, i + 1)

Digit(n) == Digits[(n % 10) + 1]

Pad2(n) == <<Digit(n \div 10), Digit(n)>>

Pad4(n) == <<Digit(n \div 1000), Digit(n \div 100), Digit(n \div 10), Digit(n)>>

\* ------------------------------------------------------- dates and times

DayNames == << <<"M","o","n","d","a","y">>,
               <<"T","u","e","s","d","a","y">>,
               <<"W","e","d","n","e","s","d","a","y">>,
               <<"T","h","u","r","s","d","a","y">>,
               <<"F","r","i","d","a","y">>,
               <<"S","a","t","u","r","d","a","y">>,
               <<"S","u","n","d","a","y">> >>

IsLeap(y) == y % 4 = 0 /\ (y % 100 # 0 \/ y % 400 = 0)

DaysInMonth(y, m) ==
    IF m = 2 THEN (IF IsLeap(y) THEN 29 ELSE 28)
    ELSE IF m \in {4, 6, 9, 11} THEN 30 ELSE 31

RECURSIVE DaysBeforeMonth(_, _)
DaysBeforeMonth(y, m) ==
    IF m = 1 THEN 0 ELSE DaysBeforeMonth(y, m - 1) + DaysInMonth(y, m - 1)

\* The proleptic Gregorian ordinal of a date: 0001-01-01 is day 1, a Monday.
Ordinal(d) ==
    LET y1 == d.y - 1
    IN  y1 * 365 + (y1 \div 4) - (y1 \div 100) + (y1 \div 400)
        + DaysBeforeMonth(d.y, d.m) + d.d

\* date.strftime("%A")
WeekdayName(d) == DayNames[((Ordinal(d) + 6) % 7) + 1]

\* A variant that takes February to have 28 days in every year.
AddDay_NoLeapDay(d) ==
    IF d.d < (IF d.m = 2 THEN 28 ELSE DaysInMonth(d.y, d.m))
    THEN [d EXCEPT !.d = d.d + 1]
    ELSE IF d.m < 12 THEN [y |-> d.y, m |-> d.m + 1, d |-> 1]
    ELSE [y |-> d.y + 1, m |-> 1, d |-> 1]

\* first_date += pd.DateOffset(days=1)
AddDay(d) ==
    IF d.d < DaysInMonth(d.y, d.m) THEN [d EXCEPT !.d = d.d + 1]
    ELSE IF d.m < 12 THEN [y |-> d.y, m |-> d.m + 1, d |-> 1]
    ELSE [y |-> d.y + 1, m |-> 1, d |-> 1]

\* A field of one or two digits, as %m, %d, %I and %M accept it
IsShortNum(s) == Len(s) \in {1, 2} /\ AllDigits(s)

\* pd.to_datetime(text, format="%m/%d/%Y"): [ok |-> TRUE, date |-> ..] or the
\* ValueError, [ok |-> FALSE].
ParseDate(s) ==
    LET i  == IndexOf(s, "/", 1)
        r1 == IF i = 0 THEN <<>> ELSE SubSeq(s, i + 1, Len(s))
        j  == IndexOf(r1, "/", 1)
        ms == IF i = 0 THEN <<>> ELSE SubSeq(s, 1, i - 1)
        ds == IF j = 0 THEN <<>> ELSE SubSeq(r1, 1, j - 1)
        ys == IF j = 0 THEN <<>> ELSE SubSeq(r1, j + 1, Len(r1))
    IN  IF /\ i # 0 /\ j # 0
           /\ IsShortNum(ms) /\ IsShortNum(ds)
           /\ Len(ys) = 4 /\ AllDigits(ys)
           /\ NumVal(ms) \in 1..12
           /\ NumVal(ys) >= 1
           /\ NumVal(ds) \in 1..DaysInMonth(NumVal(ys), NumVal(ms))
        THEN [ok |-> TRUE,
              date |-> [y |-> NumVal(ys), m |-> NumVal(ms), d |-> NumVal(ds)]]
        ELSE [ok |-> FALSE]

\* pd.to_datetime(text, format="%I:%M %p").time(): the 24-hour time of day,
\* or the ValueError.
ParseTime(s) ==
    LET i  == IndexOf(s, ":", 1)
        r1 == IF i = 0 THEN <<>> ELSE SubSeq(s, i + 1, Len(s))
        j  == IndexOf(r1, " ", 1)
        hs == IF i = 0 THEN <<>> ELSE SubSeq(s, 1, i - 1)
        ns == IF j = 0 THEN <<>> ELSE SubSeq(r1, 1, j - 1)
        ps == IF j = 0 THEN <<>> ELSE upper(SubSeq(r1, j + 1, Len(r1)))
    IN  IF /\ i # 0 /\ j # 0
           /\ IsShortNum(hs) /\ IsShortNum(ns)
           /\ NumVal(hs) \in 1..12
           /\ NumVal(ns) \in 0..59
           /\ ps \in {<<"A","M">>, <<"P","M">>}
        THEN [ok |-> TRUE,
              time |-> [h |-> (NumVal(hs) % 12)
                              + (IF ps = <<"P","M">> THEN 12 ELSE 0),
                        mi |-> NumVal(ns)]]
        ELSE [ok |-> FALSE]

\* A variant that formats the hour on the 12-hour clock (%I for %H).
FormatDateTime_TwelveHour(d, t) ==
    Pad4(d.y) \o <<"-">> \o Pad2(d.m) \o <<"-">> \o Pad2(d.d) \o <<"T">>
    \o Pad2(IF t.h % 12 = 0 THEN 12 ELSE t.h % 12) \o <<":">> \o Pad2(t.mi)
    \o <<":","0","0">>

\* datetime.combine(date, time).strftime("%Y-%m-%dT%H:%M:%S")
FormatDateTime(d, t) ==
    Pad4(d.y) \o <<"-">> \o Pad2(d.m) \o <<"-">> \o Pad2(d.d) \o <<"T">>
    \o Pad2(t.h) \o <<":">> \o Pad2(t.mi) \o <<":","0","0">>

\* strftime("%Y%m%d")
FormatCompact(d) == Pad4(d.y) \o Pad2(d.m) \o Pad2(d.d)

\* strftime("%m/%d/%Y")
FormatUS(d) == Pad2(d.m) \o <<"/">> \o Pad2(d.d) \o <<"/">> \o Pad4(d.y)

\* pd.Timestamp.now().strftime("%m/%d/%Y at %I:%M %p")
FormatStamp(ts) ==
    LET h12 == IF ts.h % 12 = 0 THEN 12 ELSE ts.h % 12
    IN  FormatUS(ts.date) \o <<" ","a","t"," ">> \o Pad2(h12) \o <<":">>
        \o Pad2(ts.mi) \o <<" ">>
        \o (IF ts.h < 12 THEN <<"A","M">> ELSE <<"P","M">>)

\* f"Last updated by Lalitha on {curr_time}\n"
Description(ts) ==
    <<"L","a","s","t"," ","u","p","d","a","t","e","d"," ","b","y"," ",
      "L","a","l","i","t","h","a"," ","o","n"," ">>
    \o FormatStamp(ts) \o <<"\n">>
\* ------------------------------------------------------------ the grid

\* A sheet is a sequence of rows, a row a sequence of cells; the code's
\* coordinates are zero-based.
NumRows(df) == Len(df)

NumCols(df) == IF Len(df) = 0 THEN 0 ELSE Len(df[1])

At(df, row, col) == df[row + 1][col + 1]

\* A variant that walks a sheet column by column.
StackIndex_ColumnMajor(df, k) ==
    <<(k - 1) % NumRows(df), (k - 1) \div NumRows(df)>>

\* df.isin(cfg["aliases"]).stack(), as the index of its k-th item: the cells
\* of one sheet row by row, and within a row column by column.
StackIndex(df, k) == <<(k - 1) \div NumCols(df), (k - 1) % NumCols(df)>>

\* The items of every sheet, in df_dict.items() order: <<sheet, row, col>>.
RECURSIVE Scheduled(_, _)
Scheduled(df_dict, s) ==
    IF s > Len(df_dict) THEN <<>>
    ELSE [k \in 1..(NumRows(df_dict[s]) * NumCols(df_dict[s])) |->
              <<s>> \o StackIndex(df_dict[s], k)]
         \o Scheduled(df_dict, s + 1)

\* A variant that gives up at the first cell that is not blank and not a date.
RECURSIVE ResolveDate_StopAtText(_, _, _)
ResolveDate_StopAtText(df, col_i, above_row) ==
    IF above_row < 0 THEN [found |-> FALSE]
    ELSE IF isna(At(df, above_row, col_i))
         THEN ResolveDate_StopAtText(df, col_i, above_row - 1)
    ELSE IF ParseDate(At(df, above_row, col_i)).ok
         THEN [found |-> TRUE,
               date |-> ParseDate(At(df, above_row, col_i)).date,
               date_row |-> above_row]
    ELSE [found |-> FALSE]

\* The loop over above_row: the nearest cell at or above above_row that is
\* not blank and parses as a date.
RECURSIVE ResolveDate(_, _, _)
ResolveDate(df, col_i, above_row) ==
    IF above_row < 0 THEN [found |-> FALSE]
    ELSE IF isna(At(df, above_row, col_i))
         THEN ResolveDate(df, col_i, above_row - 1)
    ELSE IF ParseDate(At(df, above_row, col_i)).ok
         THEN [found |-> TRUE,
               date |-> ParseDate(At(df, above_row, col_i)).date,
               date_row |-> above_row]
    ELSE ResolveDate(df, col_i, above_row - 1)

\* ----------------------------------------------------------- the events

Raise(type, site, where) ==
    [kind |-> "error", type |-> type, site |-> site, indices |-> where]

Yield(event) == [kind |-> "event", event |-> event]

\* A variant that puts the event on the day of the run.
get_event_from_entry_Today(config, date, role, ts) ==
    IF role \notin DOMAIN config.role_info
    THEN Raise("KeyError", "role_info", <<>>)
    ELSE LET role_info  == config.role_info[role]
             start_time == ParseTime(role_info.start_time)
             end_time   == ParseTime(role_info.end_time)
         IN  IF ~start_time.ok THEN Raise("ValueError", "start_time", <<>>)
             ELSE IF ~end_time.ok THEN Raise("ValueError", "end_time", <<>>)
             ELSE Yield([title |-> role_info.title,
                         location |-> role_info.location,
                         description |-> Description(ts),
                         start_datetime |-> FormatDateTime(ts.date, start_time.time),
                         end_datetime |-> FormatDateTime(ts.date, end_time.time)])

get_event_from_entry(config, date, role, ts) ==
    IF role \notin DOMAIN config.role_info
    THEN Raise("KeyError", "role_info", <<>>)
    ELSE LET role_info  == config.role_info[role]
             start_time == ParseTime(role_info.start_time)
             end_time   == ParseTime(role_info.end_time)
         IN  IF ~start_time.ok THEN Raise("ValueError", "start_time", <<>>)
             ELSE IF ~end_time.ok THEN Raise("ValueError", "end_time", <<>>)
             ELSE Yield([title |-> role_info.title,
                         location |-> role_info.location,
                         description |-> Description(ts),
                         start_datetime |-> FormatDateTime(date, start_time.time),
                         end_datetime |-> FormatDateTime(date, end_time.time)])

\* The sanity check of the weekday, then the event of the entry.
CheckDayOfWeek(config, df, indices, role, res, ts) ==
    IF res.date_row - 1 < 0
    THEN Raise("KeyError", "day_of_week", <<>>)
    ELSE IF WeekdayName(res.date) # At(df, res.date_row - 1, indices[2])
    THEN Raise("AssertionError", "day_of_week", indices)
    ELSE get_event_from_entry(config, res.date, role, ts)

\* A variant that drops a match with no date above it.
ScanEntry_SilentDrop(config, df, indices, ts) ==
    IF At(df, indices[1], indices[2]) \notin config.aliases
    THEN [kind |-> "skip"]
    ELSE LET role == At(df, indices[1], 0)
             res  == ResolveDate(df, indices[2], indices[1] - 1)
         IN  IF ~res.found
             THEN [kind |-> "skip"]
             ELSE CheckDayOfWeek(config, df, indices, role, res, ts)

\* One item of the scan of get_events_from_df.
ScanEntry(config, df, indices, ts) ==
    IF At(df, indices[1], indices[2]) \notin config.aliases
    THEN [kind |-> "skip"]
    ELSE LET role == At(df, indices[1], 0)
             res  == ResolveDate(df, indices[2], indices[1] - 1)
         IN  IF ~res.found
             THEN Raise("ValueError", "no_date", indices)
             ELSE CheckDayOfWeek(config, df, indices, role, res, ts)

\* A variant that keeps three letters of each day.
RECURSIVE JoinDays_ThreeLetters(_)
JoinDays_ThreeLetters(days) ==
    IF days = <<>> THEN <<>>
    ELSE IF Len(days) = 1 THEN upper(Prefix(days[1], 3))
    ELSE upper(Prefix(days[1], 3)) \o <<",">> \o JoinDays_ThreeLetters(Tail(days))

\* rrule_days, joined with ","
RECURSIVE JoinDays(_)
JoinDays(days) ==
    IF days = <<>> THEN <<>>
    ELSE IF Len(days) = 1 THEN upper(Prefix(days[1], 2))
    ELSE upper(Prefix(days[1], 2)) \o <<",">> \o JoinDays(Tail(days))

Recurrence(days, end_date) ==
    <<"R","R","U","L","E",":","F","R","E","Q","=","W","E","E","K","L","Y",
      ";","B","Y","D","A","Y","=">>
    \o JoinDays(days) \o <<";","U","N","T","I","L","=">> \o end_date

InDays(name, days) == \E i \in 1..Len(days) : days[i] = name

\* The body that create_event adds to the batch.
Body(config, event) ==
    LET body == [summary |-> event.title,
                 location |-> event.location,
                 description |-> event.description,
                 start |-> [dateTime |-> event.start_datetime,
                            timeZone |-> config.timezone],
                 end |-> [dateTime |-> event.end_datetime,
                          timeZone |-> config.timezone]]
    IN  IF "recurrence" \in DOMAIN event
        THEN [f \in DOMAIN body \cup {"recurrence"} |->
                 IF f = "recurrence" THEN event.recurrence ELSE body[f]]
        ELSE body
\* ----------------------------------------------------------- the inputs

MaxRows == 3

MaxStartOffset == 6

MaxAdvance == 9

MaxTicks == 1

MaxRuns == 2

Alice == <<"A","l","i","c","e">>

Notes == <<"n","o","t","e","s">>

Clinic == <<"C","l","i","n","i","c">>

Call == <<"C","a","l","l">>

Surgery == <<"S","u","r","g","e","r","y">>

Wednesday == DayNames[3]

Thursday == DayNames[4]

May25 == <<"0","5","/","2","5","/","2","0","2","2">>

May26 == <<"5","/","2","6","/","2","0","2","2">>

NotAMonth == <<"1","3","/","2","5","/","2","0","2","2">>

Dec31 == <<"1","2","/","3","1","/","2","0","2","2">>

T0900 == <<"0","9",":","0","0"," ","A","M">>

T1000 == <<"1","0",":","0","0"," ","A","M">>

T1230 == <<"1","2",":","3","0"," ","P","M">>

T1300 == <<"0","1",":","0","0"," ","p","m">>

T1700 == <<"0","5",":","0","0"," ","P","M">>

NotATime == <<"1","3",":","0","0"," ","P","M">>

\* The values a generated schedule column is made of.
CellValues == {NaN, Notes, May25, Wednesday, Alice}

\* Every sheet of MaxRows rows with the role in column 0 and a schedule
\* column made of CellValues.
GeneratedSheets ==
    { [r \in 1..MaxRows |-> <<Clinic, col[r]>>] : col \in [1..MaxRows -> CellValues] }

\* The column of the worked example, beside a role column.
ExampleSheet ==
    << <<NaN, NaN>>, <<NaN, Notes>>, <<NaN, May25>>, <<NaN, Wednesday>>,
       <<Clinic, Alice>> >>

WeekSheet ==
    << <<NaN, Wednesday, Thursday>>,
       <<NaN, May25, May26>>,
       <<Clinic, NaN, Alice>>,
       <<Call, Alice, NaN>> >>

WednesdaySheet == << <<NaN, Wednesday>>, <<NaN, May25>>, <<Clinic, Alice>> >>

ThursdaySheet == << <<NaN, Thursday>>, <<NaN, May26>>, <<Call, Alice>> >>

UnknownRoleSheet == << <<NaN, Wednesday>>, <<NaN, May25>>, <<Surgery, Alice>> >>

BlankRoleSheet == << <<NaN, Wednesday>>, <<NaN, May25>>, <<NaN, Alice>> >>

SkipSheet ==
    << <<Clinic, Wednesday>>, <<Clinic, May25>>, <<Clinic, NotAMonth>>,
       <<Clinic, NaN>>, <<Clinic, Alice>> >>

SecondWeekSheet ==
    << <<NaN, Wednesday>>, <<NaN, May25>>, <<Clinic, Alice>>,
       <<NaN, May26>>, <<Call, Alice>> >>

NoDateSheet == << <<NaN, Notes>>, <<NaN, NaN>>, <<Clinic, Alice>> >>

HandGrids ==
    { <<ExampleSheet>>, <<WednesdaySheet, NoDateSheet>>, <<WeekSheet>>, <<WednesdaySheet, ThursdaySheet>>,
      <<UnknownRoleSheet>>, <<BlankRoleSheet>>, <<SkipSheet>>,
      <<SecondWeekSheet>>, <<WednesdaySheet, SecondWeekSheet, ThursdaySheet>> }

Entry(title, days, start_time, end_time, start_date, end_date) ==
    [title |-> title, location |-> "Ward 4", days |-> days,
     start_time |-> start_time, end_time |-> end_time,
     start_date |-> start_date, end_date |-> end_date]

Rounds == Entry("Rounds", <<Wednesday, DayNames[5]>>, T0900, T1000,
                FormatUS([y |-> 2022, m |-> 5, d |-> 2]), Dec31)

RoleInfo(title, start_time, end_time) ==
    [title |-> title, location |-> "Main Hospital",
     start_time |-> start_time, end_time |-> end_time]

BaseRoles == (Clinic :> RoleInfo("Clinic", T0900, T1700))
             @@ (Call :> RoleInfo("Call", T1230, T1300))

Config(role_info, recurring_schedules) ==
    [aliases |-> {Alice}, timezone |-> "America/Chicago",
     role_info |-> role_info, recurring_schedules |-> recurring_schedules]

BaseConfig == Config(BaseRoles, <<Rounds>>)

RoleConfigs ==
    { BaseConfig,
      Config((Clinic :> RoleInfo("Clinic", T0900, T1700))
             @@ (Call :> RoleInfo("Call", T1700, T0900)), <<>>),
      Config((Clinic :> RoleInfo("", T1230, T1230))
             @@ (Call :> RoleInfo("Call", T1230, T1300)), <<>>),
      Config((Clinic :> RoleInfo("Clinic", NotATime, T1700))
             @@ (Call :> RoleInfo("Call", T1230, T1300)), <<Rounds>>),
      Config((Clinic :> RoleInfo("Clinic", T0900, T1700))
             @@ (Call :> RoleInfo("Call", T1230, Notes)), <<Rounds>>) }

StartDates ==
    { FormatUS([y |-> 2022, m |-> 5, d |-> 2 + k]) : k \in 0..MaxStartOffset }
    \cup { <<"1","2","/","3","0","/","2","0","2","2">>,
           <<"0","2","/","2","7","/","2","0","2","4">> }

DaysChoices ==
    { <<Wednesday, DayNames[5]>>, <<DayNames[1], Wednesday>>, <<DayNames[7]>>,
      <<DayNames[5], DayNames[1]>>, <<>>, << <<"M","o","n">> >> }

RecurringChoices ==
    { <<Entry("Rounds", days, T0900, T1000, start_date, Dec31)>> :
          days \in DaysChoices, start_date \in StartDates }
    \cup
    { <<>>,
      <<Rounds, Entry("Teaching", <<DayNames[1]>>, T1230, T1300, May25, May26)>>,
      <<Entry("Night", <<DayNames[1]>>, T1700, T0900, May25, Dec31), Rounds>>,
      <<Entry("", <<DayNames[1]>>, T0900, T0900, May25, Dec31)>>,
      <<Rounds, Entry("Rounds", <<DayNames[1]>>, NotATime, T1000, May25, Dec31)>>,
      <<Entry("Rounds", <<DayNames[1]>>, T0900, Notes, May25, Dec31), Rounds>>,
      <<Rounds, Entry("Rounds", <<DayNames[1]>>, T0900, T1000, NotAMonth, Dec31)>>,
      <<Rounds, Entry("Rounds", <<DayNames[1]>>, T0900, T1000, May25, NotAMonth)>>,
      <<Rounds, Entry("Rounds", <<>>, T0900, T1000, May25, Dec31), Rounds>> }

\* The grids and configurations a run starts from.
Inputs ==
    { <<BaseConfig, <<sheet>> >> : sheet \in GeneratedSheets }
    \cup (RoleConfigs \X HandGrids)
    \cup { <<Config(BaseRoles, rec), <<WeekSheet>> >> : rec \in RecurringChoices }

StartClock == [date |-> [y |-> 2022, m |-> 5, d |-> 31], h |-> 23, mi |-> 59]
\* -------------------------------------------------------------- the run

VARIABLES
    cfg,         \* get_cfg()
    sheets,      \* get_sheets(cfg), in the order of cfg["sheets"]
    now,         \* the wall clock that pd.Timestamp.now() reads
    ticks,       \* minutes the clock has advanced
    run,         \* which invocation of main() this is
    pc,          \* where main() is
    item,        \* the position of the scan in Scheduled(sheets, 1)
    sheet,       \* get_events_from_df: which sheet df is
    indices,     \* get_events_from_df: the coordinates of the last match
    date,        \* get_events_from_df: the last resolved date
    date_row,    \* get_events_from_df: the row of the last resolved date
    entry,       \* get_recurrence_events: the position in recurring_schedules
    first_date,  \* get_recurrence_events: first_date
    advances,    \* iterations of the first_date loop for the current entry
    batch,       \* the bodies added to the batch request
    created,     \* the bodies the executed batch sent to the calendar
    error,       \* the exception that ended main()
    prev         \* the batch of the previous invocation

vars == <<cfg, sheets, now, ticks, run, pc, item, sheet, indices, date, date_row,
          entry, first_date, advances, batch, created, error, prev>>

NoDate == [y |-> 0, m |-> 0, d |-> 0]

NoError == [type |-> "none", site |-> "none", indices |-> <<>>]

NoPrev == [pc |-> "none", batch |-> <<>>]

\* Where main() goes once entry i of the recurring schedules is next.
AfterEntries(config, i) ==
    IF i > Len(config.recurring_schedules) THEN "execute" ELSE "recur"

\* Where main() goes once item k of the scan is next.
AfterScan(config, df_dict, k) ==
    IF k > Len(Scheduled(df_dict, 1)) THEN AfterEntries(config, 1) ELSE "scan"

Start(config, df_dict) ==
    /\ cfg = config
    /\ sheets = df_dict
    /\ pc = AfterScan(config, df_dict, 1)
    /\ item = 1
    /\ sheet = 0
    /\ indices = <<>>
    /\ date = NoDate
    /\ date_row = -1
    /\ entry = 1
    /\ first_date = NoDate
    /\ advances = 0
    /\ batch = <<>>
    /\ created = <<>>
    /\ error = NoError

Init ==
    /\ \E input \in Inputs : Start(input[1], input[2])
    /\ now = StartClock
    /\ ticks = 0
    /\ run = 1
    /\ prev = NoPrev

\* The wall clock advances by a minute.
Tick ==
    /\ ticks < MaxTicks
    /\ ticks' = ticks + 1
    /\ now' = IF now.mi < 59 THEN [now EXCEPT !.mi = now.mi + 1]
              ELSE IF now.h < 23 THEN [now EXCEPT !.h = now.h + 1, !.mi = 0]
              ELSE [date |-> AddDay(now.date), h |-> 0, mi |-> 0]
    /\ UNCHANGED <<cfg, sheets, run, pc, item, sheet, indices, date, date_row, entry,
                   first_date, advances, batch, created, error, prev>>

\* A variant that executes the batch on the way out.
Fail_ExecutesBatch(res) ==
    /\ pc' = "failed"
    /\ error' = [type |-> res.type, site |-> res.site, indices |-> res.indices]
    /\ created' = batch
    /\ UNCHANGED batch

\* An exception leaves main(): nothing after it runs.
Fail(res) ==
    /\ pc' = "failed"
    /\ error' = [type |-> res.type, site |-> res.site, indices |-> res.indices]
    /\ UNCHANGED <<batch, created>>

\* create_event(cfg, service, batch, calendar_id, event)
create_event(event) ==
    /\ batch' = Append(batch, Body(cfg, event))
    /\ UNCHANGED <<created, error>>

\* One iteration of "for event in get_events_from_df(cfg, sheets)": the
\* generator runs to its next item, and main() adds the event it yields.
ScanCell ==
    /\ pc = "scan"
    /\ LET at  == Scheduled(sheets, 1)[item]
           df  == sheets[at[1]]
           ind == <<at[2], at[3]>>
           res == ScanEntry(cfg, df, ind, now)
           rd  == ResolveDate(df, ind[2], ind[1] - 1)
       IN  /\ sheet' = at[1]
           /\ IF res.kind = "skip"
              THEN UNCHANGED <<indices, date, date_row>>
              ELSE /\ indices' = ind
                   /\ IF rd.found
                      THEN date' = rd.date /\ date_row' = rd.date_row
                      ELSE UNCHANGED <<date, date_row>>
           /\ IF res.kind = "error"
              THEN Fail(res) /\ UNCHANGED item
              ELSE /\ item' = item + 1
                   /\ pc' = AfterScan(cfg, sheets, item + 1)
                   /\ IF res.kind = "event"
                      THEN create_event(res.event)
                      ELSE UNCHANGED <<batch, created, error>>
    /\ UNCHANGED <<cfg, sheets, now, ticks, run, entry, first_date, advances, prev>>

\* get_recurrence_events up to the first_date loop of the next entry.
NextEntry ==
    /\ pc = "recur"
    /\ LET e == cfg.recurring_schedules[entry]
       IN  IF ~ParseTime(e.start_time).ok
           THEN Fail(Raise("ValueError", "start_time", <<>>))
                /\ UNCHANGED <<first_date, advances>>
           ELSE IF ~ParseTime(e.end_time).ok
           THEN Fail(Raise("ValueError", "end_time", <<>>))
                /\ UNCHANGED <<first_date, advances>>
           ELSE IF ~ParseDate(e.start_date).ok
           THEN Fail(Raise("ValueError", "start_date", <<>>))
                /\ UNCHANGED <<first_date, advances>>
           ELSE /\ first_date' = ParseDate(e.start_date).date
                /\ advances' = 0
                /\ pc' = "first_date"
                /\ UNCHANGED <<batch, created, error>>
    /\ UNCHANGED <<cfg, sheets, now, ticks, run, item, sheet, indices, date, date_row,
                   entry, prev>>

\* One iteration of "while first_date.strftime("%A") not in days".
AdvanceDay ==
    /\ pc = "first_date"
    /\ ~InDays(WeekdayName(first_date), cfg.recurring_schedules[entry].days)
    /\ advances < MaxAdvance
    /\ first_date' = AddDay(first_date)
    /\ advances' = advances + 1
    /\ UNCHANGED <<cfg, sheets, now, ticks, run, pc, item, sheet, indices, date,
                   date_row, entry, batch, created, error, prev>>

\* The event of a recurring entry, once the first_date loop has ended.
RecurrenceEvent(e, first, ts) ==
    [title |-> e.title,
     location |-> e.location,
     description |-> Description(ts),
     start_datetime |-> FormatDateTime(first, ParseTime(e.start_time).time),
     end_datetime |-> FormatDateTime(first, ParseTime(e.end_time).time),
     recurrence |-> Recurrence(e.days, FormatCompact(ParseDate(e.end_date).date))]

\* The first_date loop ends; the entry's event is yielded and main() adds it.
YieldEntry ==
    /\ pc = "first_date"
    /\ InDays(WeekdayName(first_date), cfg.recurring_schedules[entry].days)
    /\ LET e == cfg.recurring_schedules[entry]
       IN  IF ~ParseDate(e.end_date).ok
           THEN Fail(Raise("ValueError", "end_date", <<>>)) /\ UNCHANGED entry
           ELSE /\ create_event(RecurrenceEvent(e, first_date, now))
                /\ entry' = entry + 1
                /\ pc' = AfterEntries(cfg, entry + 1)
    /\ UNCHANGED <<cfg, sheets, now, ticks, run, item, sheet, indices, date, date_row,
                   first_date, advances, prev>>

\* batch.execute()
Execute ==
    /\ pc = "execute"
    /\ created' = batch
    /\ pc' = "done"
    /\ UNCHANGED <<cfg, sheets, now, ticks, run, item, sheet, indices, date, date_row,
                   entry, first_date, advances, batch, error, prev>>

\* The program is started again on the same files.
Rerun ==
    /\ pc \in {"done", "failed"}
    /\ run < MaxRuns
    /\ run' = run + 1
    /\ prev' = [pc |-> pc, batch |-> batch]
    /\ pc' = AfterScan(cfg, sheets, 1)
    /\ item' = 1
    /\ sheet' = 0
    /\ indices' = <<>>
    /\ date' = NoDate
    /\ date_row' = -1
    /\ entry' = 1
    /\ first_date' = NoDate
    /\ advances' = 0
    /\ batch' = <<>>
    /\ created' = <<>>
    /\ error' = NoError
    /\ UNCHANGED <<cfg, sheets, now, ticks>>

Next ==
    \/ Tick
    \/ ScanCell
    \/ NextEntry
    \/ AdvanceDay
    \/ YieldEntry
    \/ Execute
    \/ Rerun

Spec == Init /\ [][Next]_vars
\* ------------------------------------------------------------ the claims

\* The cell of the scan's k-th item, and whether it is a match.
ItemCell(k) ==
    LET at == Scheduled(sheets, 1)[k] IN At(sheets[at[1]], at[2], at[3])

IsMatch(k) == ItemCell(k) \in cfg.aliases

\* The rows above (row, col) of sheet s whose cell parses as a date.
DateRowsAbove(s, row, col) ==
    { k \in 0..(row - 1) :
          /\ ~isna(At(sheets[s], k, col))
          /\ ParseDate(At(sheets[s], k, col)).ok }

\* The item the scan handled last: the one it failed on, or the one before
\* the next.
LastItem ==
    IF pc = "failed" /\ item <= Len(Scheduled(sheets, 1)) THEN item ELSE item - 1

\* The scan has just handled a match: sheet, indices, date and date_row are
\* those of that match.
JustMatched ==
    /\ LastItem >= 1
    /\ IsMatch(LastItem)
    /\ Scheduled(sheets, 1)[LastItem] = <<sheet>> \o indices

\* The matches the scan has passed, each of which yielded an event.
MatchesBefore(k) == { j \in 1..(k - 1) : IsMatch(j) }

\* C1: once the grid scan or the recurrence builder has failed, nothing is
\* created: the batch is not executed, whatever it already holds, and the run
\* does nothing more.
C1_NoEventAfterFailure ==
    /\ [](pc = "failed" => created = <<>>)
    /\ [][(pc = "failed" /\ run' = run)
             => (pc' = "failed" /\ created' = <<>> /\ batch' = batch)]_vars

C1_Witness == pc = "failed" /\ Len(batch) >= 1 /\ created = <<>>

\* C2: a matched cell whose date resolves either has the weekday of the date
\* equal to the label one row above the date cell, or the scan fails with the
\* day mismatch (the AssertionError); it never ends any other way.
C2_DayMismatchOrEvent ==
    (JustMatched /\ error.site # "no_date")
        => \/ /\ error.site = "day_of_week"
              /\ error.type = "AssertionError"
           \/ /\ error.site # "day_of_week"
              /\ date_row >= 1
              /\ WeekdayName(date) = At(sheets[sheet], date_row - 1, indices[2])

\* C3: the date resolved for a match at (r, c) is that of the nearest row
\* above r whose cell parses as a date; blank cells and other text between
\* the two are passed over, and the scan reports no date only when no row
\* above parses.
C3_NearestParseableDate ==
    JustMatched =>
        LET above == DateRowsAbove(sheet, indices[1], indices[2])
        IN  IF error.site = "no_date"
            THEN above = {}
            ELSE /\ date_row \in above
                 /\ \A k \in above : k <= date_row
                 /\ date = ParseDate(At(sheets[sheet], date_row, indices[2])).date

\* A match resolved past text that is not a date: the worked example.
C3_Witness ==
    /\ JustMatched
    /\ sheets = <<ExampleSheet>>
    /\ indices = <<4, 1>>
    /\ date = [y |-> 2022, m |-> 5, d |-> 25]
    /\ date_row = 2

\* C4: a match with no parseable date above it (row 0 included) ends the scan
\* with the ValueError that names the match's own coordinates; the batch holds
\* the events of the earlier matches only, and no match is passed silently.
C4_DateNotFound ==
    /\ \A k \in 1..(item - 1) :
           IsMatch(k) =>
               LET at == Scheduled(sheets, 1)[k]
               IN  DateRowsAbove(at[1], at[2], at[3]) # {}
    /\ (pc = "scan" \/ error.site = "no_date") =>
           LET at == Scheduled(sheets, 1)[item]
           IN  (IsMatch(item) /\ DateRowsAbove(at[1], at[2], at[3]) = {})
                   => (pc = "scan" \/
                       /\ pc = "failed"
                       /\ error.type = "ValueError"
                       /\ error.indices = <<at[2], at[3]>>
                       /\ Len(batch) = Cardinality(MatchesBefore(item))
                       /\ created = <<>>)
    /\ error.site = "no_date" =>
           /\ IsMatch(item)
           /\ LET at == Scheduled(sheets, 1)[item]
              IN  DateRowsAbove(at[1], at[2], at[3]) = {}

\* A match under blank cells and text only, after an earlier match was
\* turned into an event.
C4_Witness ==
    /\ pc = "failed"
    /\ error.site = "no_date"
    /\ error.indices = indices
    /\ indices[1] >= 1
    /\ Len(batch) = 1

DatePart(text) == SubSeq(text, 1, 10)

IsoDate(d) == Pad4(d.y) \o <<"-">> \o Pad2(d.m) \o <<"-">> \o Pad2(d.d)

NameOfOrdinal(o) == DayNames[((o + 6) % 7) + 1]

\* The order of text, character by character; digits in numeric order.
CharRank(ch) == IF IsDigit(ch) THEN DigitVal(ch) + 1 ELSE 0

RECURSIVE TextLess(_, _)
TextLess(a, b) ==
    IF b = <<>> THEN FALSE
    ELSE IF a = <<>> THEN TRUE
    ELSE IF Head(a) = Head(b) THEN TextLess(Tail(a), Tail(b))
    ELSE CharRank(Head(a)) < CharRank(Head(b))

\* C5: the search of first_date ends within a week of iterations, and an
\* entry with no days is refused rather than advanced.
C5_TerminatesWithinAWeek ==
    /\ advances <= Len(DayNames)
    /\ (pc = "first_date" /\ cfg.recurring_schedules[entry].days = <<>>)
           => advances = 0

\* The cells of every sheet: sheet by sheet, row by row, column by column.
RECURSIVE CellsInOrder(_, _, _)
CellsInOrder(s, row, col) ==
    IF s > Len(sheets) THEN <<>>
    ELSE IF row >= NumRows(sheets[s]) THEN CellsInOrder(s + 1, 0, 0)
    ELSE IF col >= NumCols(sheets[s]) THEN CellsInOrder(s, row + 1, 0)
    ELSE << <<s, row, col>> >> \o CellsInOrder(s, row, col + 1)

MatchedInOrder ==
    SelectSeq(CellsInOrder(1, 0, 0),
              LAMBDA at : At(sheets[at[1]], at[2], at[3]) \in cfg.aliases)

NearestDate(at) ==
    LET above == DateRowsAbove(at[1], at[2], at[3])
        top   == CHOOSE k \in above : \A j \in above : j <= k
    IN  ParseDate(At(sheets[at[1]], top, at[3])).date

\* C6: when no entry fails, the calendar receives one event per matching
\* cell, in the order of the sheets and row by row within a sheet, and after
\* them one event per recurring entry in the order of the configuration.
C6_OneEventPerMatchInOrder ==
    pc = "done" =>
        LET m   == MatchedInOrder
            rec == cfg.recurring_schedules
        IN  /\ Len(created) = Len(m) + Len(rec)
            /\ \A i \in 1..Len(m) :
                   /\ "recurrence" \notin DOMAIN created[i]
                   /\ created[i].summary
                          = cfg.role_info[At(sheets[m[i][1]], m[i][2], 0)].title
                   /\ DatePart(created[i].start.dateTime)
                          = IsoDate(NearestDate(m[i]))
            /\ \A j \in 1..Len(rec) :
                   /\ "recurrence" \in DOMAIN created[Len(m) + j]
                   /\ created[Len(m) + j].summary = rec[j].title

C6_Witness ==
    /\ pc = "done"
    /\ Len(created) = 4
    /\ created[1].summary = "Clinic"
    /\ created[2].summary = "Call"
    /\ created[3].summary = "Rounds"
    /\ created[4].summary = "Teaching"

StripDescription(body) == [f \in DOMAIN body \ {"description"} |-> body[f]]

\* C7: two runs over the same grid and configuration hand over identical
\* sequences of events, the description included.
C7_IdenticalRuns ==
    (pc = "done" /\ prev.pc = "done") => batch = prev.batch

\* C7, amended: two runs over the same grid and configuration end the same
\* way and hand over sequences that agree in every field but the
\* description, which carries the time of the run.
C7_IdenticalButDescription ==
    (pc \in {"done", "failed"} /\ prev.pc # "none") =>
        /\ prev.pc = pc
        /\ Len(batch) = Len(prev.batch)
        /\ \A i \in 1..Len(batch) :
               StripDescription(batch[i]) = StripDescription(prev.batch[i])

C7_Witness ==
    /\ pc = "done"
    /\ prev.pc = "done"
    /\ Len(batch) >= 2
    /\ batch # prev.batch

\* C8: every event has a start strictly before its end and a title that is
\* not empty.
C8_StartBeforeEnd ==
    \A i \in 1..Len(batch) :
        /\ TextLess(batch[i].start.dateTime, batch[i].end.dateTime)
        /\ batch[i].summary # ""

\* The title and times of every role and recurring entry of the configuration.
Sources ==
    { [title |-> cfg.role_info[r].title,
       start_time |-> cfg.role_info[r].start_time,
       end_time |-> cfg.role_info[r].end_time] : r \in DOMAIN cfg.role_info }
    \cup
    { [title |-> cfg.recurring_schedules[j].title,
       start_time |-> cfg.recurring_schedules[j].start_time,
       end_time |-> cfg.recurring_schedules[j].end_time] :
          j \in 1..Len(cfg.recurring_schedules) }

Earlier(t1, t2) == t1.h < t2.h \/ (t1.h = t2.h /\ t1.mi < t2.mi)

\* C8, amended: every event starts and ends on the same date, carries the
\* title of its role or recurring entry as configured (empty if that is
\* empty), and starts before it ends exactly when the configured start_time
\* is earlier in the day than the configured end_time.
C8_TimesAsConfigured ==
    \A i \in 1..Len(batch) :
        /\ DatePart(batch[i].start.dateTime) = DatePart(batch[i].end.dateTime)
        /\ \E src \in Sources :
               /\ batch[i].summary = src.title
               /\ ParseTime(src.start_time).ok
               /\ ParseTime(src.end_time).ok
               /\ TextLess(batch[i].start.dateTime, batch[i].end.dateTime)
                      <=> Earlier(ParseTime(src.start_time).time,
                                  ParseTime(src.end_time).time)

C8_Witness ==
    \E i \in 1..Len(batch) :
        /\ batch[i].summary = ""
        /\ ~TextLess(batch[i].start.dateTime, batch[i].end.dateTime)

IsDate(d) == d.y >= 1 /\ d.m \in 1..12 /\ d.d \in 1..DaysInMonth(d.y, d.m)

\* The recurring entry whose event was added last, once it has been added.
EntryYielded == pc \in {"recur", "execute", "done"} /\ entry > 1

\* C9: the date of a recurring event is the earliest date on or after
\* start_date whose weekday is one of the entry's days, at most 6 days after
\* start_date; while it is being searched, first_date is start_date plus the
\* number of iterations and no earlier day qualified.
C9_FirstQualifyingDate ==
    /\ pc = "first_date" =>
           LET e     == cfg.recurring_schedules[entry]
               start == Ordinal(ParseDate(e.start_date).date)
           IN  /\ IsDate(first_date)
               /\ Ordinal(first_date) = start + advances
               /\ \A n \in 0..(advances - 1) :
                      ~InDays(NameOfOrdinal(start + n), e.days)
    /\ EntryYielded =>
           LET e     == cfg.recurring_schedules[entry - 1]
               start == Ordinal(ParseDate(e.start_date).date)
               n     == Ordinal(first_date) - start
               body  == batch[Len(batch)]
           IN  /\ IsDate(first_date)
               /\ n \in 0..6
               /\ InDays(NameOfOrdinal(start + n), e.days)
               /\ \A k \in 0..(n - 1) : ~InDays(NameOfOrdinal(start + k), e.days)
               /\ DatePart(body.start.dateTime) = IsoDate(first_date)
               /\ DatePart(body.end.dateTime) = IsoDate(first_date)

\* Monday 2022-05-02 with Wednesday and Friday gives 2022-05-04.
C9_Witness ==
    /\ EntryYielded
    /\ cfg.recurring_schedules[entry - 1].start_date
           = <<"0","5","/","0","2","/","2","0","2","2">>
    /\ cfg.recurring_schedules[entry - 1].days = <<Wednesday, DayNames[5]>>
    /\ advances = 2
    /\ batch[Len(batch)].start.dateTime
           = <<"2","0","2","2","-","0","5","-","0","4","T","0","9",":","0",
             "0",":","0","0">>

\* The two-letter code of each day a configuration names.
DayCode(day) ==
    CASE day = DayNames[1] -> <<"M","O">>
      [] day = DayNames[2] -> <<"T","U">>
      [] day = DayNames[3] -> <<"W","E">>
      [] day = DayNames[4] -> <<"T","H">>
      [] day = DayNames[5] -> <<"F","R">>
      [] day = DayNames[6] -> <<"S","A">>
      [] day = DayNames[7] -> <<"S","U">>
      [] day = <<"M","o","n">> -> <<"M","O">>

RECURSIVE ByDay(_, _)
ByDay(days, i) ==
    IF i > Len(days) THEN <<>>
    ELSE (IF i = 1 THEN <<>> ELSE <<",">>) \o DayCode(days[i]) \o ByDay(days, i + 1)

Until(end_date) ==
    CASE end_date = Dec31 -> <<"2","0","2","2","1","2","3","1">>
      [] end_date = May26 -> <<"2","0","2","2","0","5","2","6">>

\* C10: the rule of a recurring event is RRULE:FREQ=WEEKLY;BYDAY= with the
\* two-letter upper-case codes of the entry's days in their configured order,
\* then ;UNTIL= with the entry's end_date as YYYYMMDD; the events of the grid
\* carry no rule.
C10_RecurrenceRule ==
    /\ EntryYielded =>
           LET e == cfg.recurring_schedules[entry - 1]
           IN  batch[Len(batch)].recurrence
                   = <<"R","R","U","L","E",":","F","R","E","Q","=">>
                     \o <<"W","E","E","K","L","Y",";","B","Y","D","A","Y","=">>
                     \o ByDay(e.days, 1)
                     \o <<";","U","N","T","I","L","=">>
                     \o Until(e.end_date)
    /\ \A i \in 1..Len(batch) :
           ("recurrence" \in DOMAIN batch[i]) <=> (i > Len(batch) - (entry - 1))

\* Monday and Wednesday until 12/31/2022.
C10_Witness ==
    /\ pc = "done"
    /\ batch # <<>>
    /\ "recurrence" \in DOMAIN batch[Len(batch)]
    /\ batch[Len(batch)].recurrence
           = <<"R","R","U","L","E",":","F","R","E","Q","=","W","E","E","K",
             "L","Y",";","B","Y","D","A","Y","=","M","O",",","W","E",";",
             "U","N","T","I","L","=","2","0","2","2","1","2","3","1">>
====
